---- MODULE Spec2Model ----
(***************************************************************************)
(* Model of agentARChecker (src/src/main.rs): a client that asks the local *)
(* agent daemon, over a Unix stream socket with 4-byte little-endian       *)
(* length-prefixed frames, for the active-response configuration of each   *)
(* agent identifier read from standard input, retrying failed attempts.    *)
(*                                                                         *)
(* Text is modelled as sequences of bytes (0..255).  The specifications:   *)
(*   Spec      the driver: main's loops around process_agent;              *)
(*   FairSpec  Spec, with every blocking call returning;                   *)
(*   SpecChan  two SocketInstance values joined by one stream, on which    *)
(*             connect, send, receive and drop are applied in any order.   *)
(***************************************************************************)
EXTENDS Integers, Sequences, FiniteSets, TLC

\* ------------------------------------------------------------ bounds

\* Most input lines read from standard input.
MaxLines == 2

\* Longest of the payloads SpecChan enumerates byte by byte.
MaxPayloadLen == 1

\* Most sends applied in one behaviour of SpecChan.
MaxSends == 2

\* The most bytes the stream takes in one call of write.
MaxWrite == 3

\* --------------------------------------------------------- constants

COMPONENT == <<99, 111, 109>>

CONFIGURATION == <<97, 99, 116, 105, 118, 101, 45, 114, 101, 115, 112, 111, 110, 115, 101>>

GETCONFIG_COMMAND == <<103, 101, 116, 99, 111, 110, 102, 105, 103>>

\* A budget one attempt too large.
MAX_ATTEMPTS_plus1 == 3 + 1

MAX_ATTEMPTS == 3

\* The two literals of the sentinel test: "err" and "Cannot send request".
ERR_TOKEN == <<101, 114, 114>>

CANNOT_SEND == <<67, 97, 110, 110, 111, 116, 32, 115, 101, 110, 100, 32, 114, 101, 113, 117, 101, 115, 116>>

\* The literal parts of the success summary:
\* "rec_msg_ok: " and " | rec_msg_body: ".
OK_PREFIX == <<114, 101, 99, 95, 109, 115, 103, 95, 111, 107, 58, 32>>

BODY_PREFIX == <<32, 124, 32, 114, 101, 99, 95, 109, 115, 103, 95, 98, 111, 100, 121, 58, 32>>

SPACE == 32

HEADER_LEN == 4

\* ------------------------------------------------- framing, pure part

\* u32::to_be_bytes in the place of to_le_bytes.
ToLeBytes_bigEndian(n) ==
    << (n \div 16777216) % 256, (n \div 65536) % 256, (n \div 256) % 256, n % 256 >>

\* A usize in limbs, for the lengths the checker's 32-bit signed integers
\* cannot hold: the value is lo + 65536 * hi + 65536 * 65536 * top, with lo
\* and hi below 65536.  Usize(n) is the length n of a sequence of the model.
Usize(n) == [lo |-> n % 65536, hi |-> n \div 65536, top |-> 0]

\* A cast that saturates: a length that does not fit becomes u32::MAX.
AsU32_saturating(len) ==
    IF len.top > 0 THEN [lo |-> 65535, hi |-> 65535]
    ELSE [lo |-> len.lo, hi |-> len.hi]

\* `len as u32`: the low 32 bits are kept, whatever lies above is dropped.
AsU32(len) == [lo |-> len.lo, hi |-> len.hi]

\* u32::to_le_bytes of a u32 given in halves: four bytes, lowest first.
LeBytes(v) == << v.lo % 256, v.lo \div 256, v.hi % 256, v.hi \div 256 >>

\* (n as u32).to_le_bytes() for the length n of a sequence of the model.
ToLeBytes(n) == LeBytes(AsU32(Usize(n)))

\* u32::from_le_bytes, as two 16-bit halves: the value is lo + 65536 * hi,
\* which the checker's 32-bit signed integers cannot always hold.
FromLeBytes(h) == [lo |-> h[1] + 256 * h[2], hi |-> h[3] + 256 * h[4]]

\* Write::write on a stream that accepts `cap` more bytes before it faults,
\* and at most MaxWrite of them in one call: the number of bytes of buf the
\* call takes.  0 is the call that makes no progress.
Write(buf, cap) ==
    IF Len(buf) <= cap /\ Len(buf) <= MaxWrite THEN Len(buf)
    ELSE IF cap <= MaxWrite THEN cap
    ELSE MaxWrite

\* One call of write in the place of write_all: what the first call did not
\* take is never written.
WriteAll_singleWrite(buf, cap) ==
    LET n == Write(buf, cap)
    IN  [ok |-> (n > 0 \/ buf = <<>>), written |-> SubSeq(buf, 1, n)]

RECURSIVE WriteLoop(_, _, _)

\* The loop of Write::write_all once `done` bytes of buf are written: write
\* is called on what is left until nothing is left; a call that makes no
\* progress while bytes are left ends the loop with a failure.
WriteLoop(buf, done, cap) ==
    IF done = Len(buf)
    THEN [ok |-> TRUE, written |-> buf]
    ELSE IF Write(SubSeq(buf, done + 1, Len(buf)), cap - done) = 0
    THEN [ok |-> FALSE, written |-> SubSeq(buf, 1, done)]
    ELSE WriteLoop(buf, done + Write(SubSeq(buf, done + 1, Len(buf)), cap - done),
                   cap)

\* Write::write_all on a stream that accepts `cap` more bytes before it
\* faults: the bytes that reached the stream, and whether all of buf did.
WriteAll(buf, cap) == WriteLoop(buf, 0, cap)

\* A read loop that stops at the end of the stream and returns the buffer as
\* it stands: what was read, then the zeros the buffer was made of.
ReadExact_zeroPadded(avail, n) ==
    IF Len(avail) >= n
    THEN [ok |-> TRUE, data |-> SubSeq(avail, 1, n),
          rest |-> SubSeq(avail, n + 1, Len(avail))]
    ELSE [ok |-> TRUE, data |-> avail \o [i \in 1..(n - Len(avail)) |-> 0],
          rest |-> <<>>]

\* Read::read_exact of n bytes from a stream that delivers `avail` and then
\* ends: the bytes read and what is left, or a failure (UnexpectedEof).
ReadExact(avail, n) ==
    IF Len(avail) >= n
    THEN [ok |-> TRUE, data |-> SubSeq(avail, 1, n),
          rest |-> SubSeq(avail, n + 1, Len(avail))]
    ELSE [ok |-> FALSE, data |-> <<>>, rest |-> <<>>]

\* vec![0; size] filled by read_exact, for a size given in halves.  No stream
\* of the model holds 65536 bytes, so a size with hi > 0 is never met.
ReadPayload(avail, size) ==
    IF size.hi > 0
    THEN [ok |-> FALSE, data |-> <<>>, rest |-> <<>>]
    ELSE ReadExact(avail, size.lo)

\* A send that connects the channel when it holds no stream, and then writes.
Send_lazyConnect(stream, msg, cap) ==
    LET w == WriteAll(ToLeBytes(Len(msg)) \o msg, cap)
    IN  [ok |-> w.ok, err |-> IF w.ok THEN "" ELSE "Io", written |-> w.written,
         stream |-> "Some"]

\* SocketInstance::send on a channel whose stream field is `stream`
\* ("None" or "Some"); `cap` is what the stream accepts before faulting.
\* The result carries the bytes that reached the stream and the stream field
\* as the call leaves it.
Send(stream, msg, cap) ==
    IF stream = "None"
    THEN [ok |-> FALSE, err |-> "NotConnected", written |-> <<>>,
          stream |-> stream]
    ELSE LET header == ToLeBytes(Len(msg))
             w1 == WriteAll(header, cap)
         IN  IF ~w1.ok
             THEN [ok |-> FALSE, err |-> "Io", written |-> w1.written,
                   stream |-> stream]
             ELSE LET w2 == WriteAll(msg, cap - Len(header))
                  IN  IF ~w2.ok
                      THEN [ok |-> FALSE, err |-> "Io",
                            written |-> w1.written \o w2.written,
                            stream |-> stream]
                      ELSE [ok |-> TRUE, err |-> "",
                            written |-> w1.written \o w2.written,
                            stream |-> stream]

\* SocketInstance::receive on a channel whose stream field is `stream`,
\* when the stream holds `avail` and then ends.  `rest` is what is left
\* unread: a read_exact that meets the end of the stream has taken all of it.
Receive(stream, avail) ==
    IF stream = "None"
    THEN [ok |-> FALSE, err |-> "NotConnected", data |-> <<>>, rest |-> avail,
          stream |-> stream]
    ELSE LET h == ReadExact(avail, HEADER_LEN)
         IN  IF ~h.ok
             THEN [ok |-> FALSE, err |-> "Io", data |-> <<>>, rest |-> <<>>,
                   stream |-> stream]
             ELSE LET size == FromLeBytes(h.data)
                      b == ReadPayload(h.rest, size)
                  IN  IF ~b.ok
                      THEN [ok |-> FALSE, err |-> "Io", data |-> <<>>,
                            rest |-> <<>>, stream |-> stream]
                      ELSE [ok |-> TRUE, err |-> "", data |-> b.data,
                            rest |-> b.rest, stream |-> stream]

\* Whether receive has everything it will read: the header and the payload
\* the header declares.  Until then a blocking read waits for the peer.
FrameComplete(avail) ==
    /\ Len(avail) >= HEADER_LEN
    /\ ReadPayload(SubSeq(avail, HEADER_LEN + 1, Len(avail)),
                   FromLeBytes(SubSeq(avail, 1, HEADER_LEN))).ok

\* No drop at all: the instance outlives process_agent with its stream.
DropSocket_leaked(stream) ==
    [stream |-> stream, shutdown |-> FALSE]

\* A drop that lets go of the stream without shutting it down.
DropSocket_noShutdown(stream) ==
    [stream |-> "None", shutdown |-> FALSE]

\* Drop for SocketInstance: the stream is taken out of the field and shut
\* down in both directions when there was one.
DropSocket(stream) ==
    [stream |-> "None", shutdown |-> (stream = "Some")]

\* ------------------------------------------------------- text, pure part

IsCont(b) == b >= 128 /\ b <= 191

\* String::from_utf8 succeeds: the bytes from position i on are well-formed
\* UTF-8 (no overlong forms, no surrogates, nothing above U+10FFFF).
RECURSIVE Utf8From(_, _)
Utf8From(s, i) ==
    IF i > Len(s) THEN TRUE
    ELSE LET b == s[i]
             c(k) == i + k <= Len(s) /\ IsCont(s[i + k])
             r(k, lo, hi) == i + k <= Len(s) /\ s[i + k] >= lo /\ s[i + k] <= hi
         IN  IF b < 128 THEN Utf8From(s, i + 1)
             ELSE IF b >= 194 /\ b <= 223 THEN c(1) /\ Utf8From(s, i + 2)
             ELSE IF b = 224 THEN r(1, 160, 191) /\ c(2) /\ Utf8From(s, i + 3)
             ELSE IF (b >= 225 /\ b <= 236) \/ b = 238 \/ b = 239
                  THEN c(1) /\ c(2) /\ Utf8From(s, i + 3)
             ELSE IF b = 237 THEN r(1, 128, 159) /\ c(2) /\ Utf8From(s, i + 3)
             ELSE IF b = 240
                  THEN r(1, 144, 191) /\ c(2) /\ c(3) /\ Utf8From(s, i + 4)
             ELSE IF b >= 241 /\ b <= 243
                  THEN c(1) /\ c(2) /\ c(3) /\ Utf8From(s, i + 4)
             ELSE IF b = 244
                  THEN r(1, 128, 143) /\ c(2) /\ c(3) /\ Utf8From(s, i + 4)
             ELSE FALSE

IsUtf8(s) == Utf8From(s, 1)

\* The split made at the first white space of any kind, as
\* split_whitespace would find it.
FirstSpace_anyWhitespace(s) ==
    IF \E i \in 1..Len(s) : (s[i] >= 9 /\ s[i] <= 13) \/ s[i] = SPACE
    THEN CHOOSE i \in 1..Len(s) :
            /\ (s[i] >= 9 /\ s[i] <= 13) \/ s[i] = SPACE
            /\ \A j \in 1..(i - 1) : ~((s[j] >= 9 /\ s[j] <= 13) \/ s[j] = SPACE)
    ELSE 0

\* Position of the first ' ' of s, or 0.
FirstSpace(s) ==
    IF \E i \in 1..Len(s) : s[i] = SPACE
    THEN CHOOSE i \in 1..Len(s) : s[i] = SPACE /\ \A j \in 1..(i - 1) : s[j] # SPACE
    ELSE 0

\* rec_msg.splitn(2, ' ') with both parts defaulted to "".
SplitN2(s) ==
    LET p == FirstSpace(s)
    IN  IF p = 0
        THEN [tok |-> s, body |-> <<>>]
        ELSE [tok |-> SubSeq(s, 1, p - 1), body |-> SubSeq(s, p + 1, Len(s))]

\* str::starts_with in the place of str::contains.
Contains_prefixOnly(hay, needle) ==
    Len(hay) >= Len(needle) /\ SubSeq(hay, 1, Len(needle)) = needle

\* str::contains
Contains(hay, needle) ==
    \E i \in 0..(Len(hay) - Len(needle)) :
        SubSeq(hay, i + 1, i + Len(needle)) = needle

\* The sentinel test without its second half: every "err" is the sentinel.
IsSentinel_anyErr(tok, body) == tok = ERR_TOKEN

\* The sentinel test of process_agent.
IsSentinel(tok, body) == tok = ERR_TOKEN /\ Contains(body, CANNOT_SEND)

\* format!("rec_msg_ok: {} | rec_msg_body: {}", rec_msg_ok, rec_msg_body)
Summary(tok, body) == OK_PREFIX \o tok \o BODY_PREFIX \o body

\* format!("{} {} {} {}", agent_id, COMPONENT, GETCONFIG_COMMAND, CONFIGURATION)
Request(agent_id) ==
    agent_id \o <<SPACE>> \o COMPONENT \o <<SPACE>> \o GETCONFIG_COMMAND
             \o <<SPACE>> \o CONFIGURATION

\* What process_agent makes of the bytes receive returned.
Decode(bytes) ==
    IF ~IsUtf8(bytes)
    THEN [kind |-> "Err", err |-> "Decode", text |-> <<>>]
    ELSE LET parts == SplitN2(bytes)
         IN  IF IsSentinel(parts.tok, parts.body)
             THEN [kind |-> "Err", err |-> "AgentUnreachable", text |-> <<>>]
             ELSE [kind |-> "Ok", err |-> "",
                   text |-> Summary(parts.tok, parts.body)]

\* ------------------------------------------------------- environment

\* Lines the operator may type: empty, whitespace only, "1", "23".
LineValues == { <<>>, <<9, 32>>, <<49>>, <<50, 51>> }

Inputs == UNION { [1..n -> LineValues] : n \in 0..MaxLines }

\* char::is_whitespace on the one-byte characters.
IsWhitespace(b) == (b >= 9 /\ b <= 13) \/ b = SPACE

\* The filter without trim: !line.is_empty()
NotBlank_noTrim(line) == Len(line) > 0

\* !line.trim().is_empty()
NotBlank(line) == \E i \in 1..Len(line) : ~IsWhitespace(line[i])

\* Payloads the daemon may answer with.
Replies ==
    { <<111, 107, 32, 123, 125>>,                 \* "ok {}"
      <<>>,                                       \* ""
      ERR_TOKEN,                                  \* "err"
      <<101, 114, 114, 32, 110, 111>>,            \* "err no"
      ERR_TOKEN \o <<SPACE>> \o CANNOT_SEND,      \* "err Cannot send request"
      ERR_TOKEN \o <<SPACE, 120, 58, SPACE>> \o CANNOT_SEND \o <<SPACE, 116, 111>>,
                                                  \* "err x: Cannot send request to"
      ERR_TOKEN \o <<9>> \o CANNOT_SEND,          \* "err\tCannot send request"
      ERR_TOKEN \o CANNOT_SEND,                   \* "errCannot send request"
      <<111, 107, SPACE>> \o CANNOT_SEND,         \* "ok Cannot send request"
      <<195, 169, SPACE, 111>>,                   \* "e-acute o"
      <<255>>,                                    \* not UTF-8
      ERR_TOKEN \o <<SPACE>> \o CANNOT_SEND \o <<255>>,   \* not UTF-8
      <<101, 114, 114, SPACE, 195>> }             \* not UTF-8: cut sequence

\* A frame as the daemon writes it.
DaemonFrame(p) == ToLeBytes(Len(p)) \o p

\* Everything the daemon may deliver on one connection before it closes:
\* a whole frame, a frame followed by more bytes, a frame cut short, nothing.
DaemonStreams ==
    { DaemonFrame(p) : p \in Replies }
    \cup { DaemonFrame(<<111, 107>>) \o <<1, 0>>,
           <<>>, <<5, 0>>, <<5, 0, 0, 0>>, <<5, 0, 0, 0, 111, 107>>,
           <<2, 0, 0, 255, 111, 107>> }

\* How many bytes a stream may accept before a write faults.
WriteCaps(msg) ==
    { 0, HEADER_LEN - 1, HEADER_LEN, HEADER_LEN + 1, HEADER_LEN + Len(msg) }

\* ------------------------------------------------------------- state

VARIABLES
    input,      \* the lines on standard input
    agent_ids,  \* main: the identifiers collected from the input
    idx,        \* main: position of the for loop in agent_ids (0: not started)
    attempts,   \* main: the counter of the while loop
    pc,         \* where the program is
    stream,     \* process_agent: socket.stream, "None" or "Some"
    result,     \* what process_agent returned, until main has matched on it
    tx,         \* bytes written to the stream of the current attempt
    payload,    \* what receive returned in the current attempt
    opened,     \* connections made in the current attempt
    sends,      \* calls of send on the channel of the current attempt
    recvs,      \* calls of receive on the channel of the current attempt
    closed,     \* shutdowns made in the current attempt
    status,     \* per identifier: Pending, Attempting, Succeeded, Failed
    tries,      \* per identifier: calls of process_agent
    pauses,     \* per identifier: sleeps taken
    connfails,  \* per identifier: attempts that ended at a failed connect
    a_stream,   \* SpecChan: stream field of the sending SocketInstance
    b_stream,   \* SpecChan: stream field of the receiving SocketInstance
    wire,       \* SpecChan: bytes written by a and not yet read by b
    wire_eof,   \* SpecChan: a's end is shut down
    h_op,       \* SpecChan: the last operation applied
    h_send,     \* SpecChan: outcome of the last send
    h_head,     \* SpecChan: outcome of the last send made on an empty wire
    h_recv,     \* SpecChan: outcome of the last receive
    h_sends,    \* SpecChan: sends applied so far
    h_joined    \* SpecChan: a and b have been connected to each other

dvars == << input, agent_ids, idx, attempts, pc, stream, result, tx, payload,
            opened, sends, recvs, closed, status, tries, pauses, connfails >>

VARIABLES
    l_pc,       \* where send is: "off", "call", "header", "returned"
    l_len,      \* msg.len(), in limbs
    l_fault,    \* the write at which the stream faults: "none", "header", "payload"
    l_head,     \* the header bytes written
    l_count,    \* the number of payload bytes written, in limbs
    l_res       \* what send returned: "", "Ok", "Io"

hvars == << a_stream, b_stream, wire, wire_eof, h_op, h_send, h_head, h_recv, h_sends,
           h_joined >>

\* send on a payload given by its length alone
lvars == << l_pc, l_len, l_fault, l_head, l_count, l_res >>

vars == << dvars, hvars, lvars >>

NoResult == [kind |-> "None", err |-> "", text |-> <<>>]

Failure(e) == [kind |-> "Err", err |-> e, text |-> <<>>]

NoPayload == [got |-> FALSE, bytes |-> <<>>]

NoSend == [ok |-> FALSE, err |-> "", msg |-> <<>>, written |-> <<>>]

NoRecv == [ok |-> FALSE, err |-> "", data |-> <<>>, used |-> 0]

DriverInit ==
    /\ input \in Inputs
    /\ agent_ids = <<>>
    /\ idx = 0
    /\ attempts = 0
    /\ pc = "read"
    /\ stream = "None"
    /\ result = NoResult
    /\ tx = <<>>
    /\ payload = NoPayload
    /\ opened = 0
    /\ sends = 0
    /\ recvs = 0
    /\ closed = 0
    /\ status = <<>>
    /\ tries = <<>>
    /\ pauses = <<>>
    /\ connfails = <<>>

ChanIdle ==
    /\ a_stream = "None"
    /\ b_stream = "None"
    /\ wire = <<>>
    /\ wire_eof = FALSE
    /\ h_op = "none"
    /\ h_send = NoSend
    /\ h_head = NoSend
    /\ h_recv = NoRecv
    /\ h_sends = 0
    /\ h_joined = FALSE

ZeroLen == [lo |-> 0, hi |-> 0, top |-> 0]

LenIdle ==
    /\ l_pc = "off"
    /\ l_len = ZeroLen
    /\ l_fault = "none"
    /\ l_head = <<>>
    /\ l_count = ZeroLen
    /\ l_res = ""

Init == DriverInit /\ ChanIdle /\ LenIdle

\* ------------------------------------------------------------ driver

\* main: the identifiers are the input lines that are not blank.
ReadInput ==
    /\ pc = "read"
    /\ agent_ids' = SelectSeq(input, NotBlank)
    /\ status' = [i \in 1..Len(agent_ids') |-> "Pending"]
    /\ tries' = [i \in 1..Len(agent_ids') |-> 0]
    /\ pauses' = [i \in 1..Len(agent_ids') |-> 0]
    /\ connfails' = [i \in 1..Len(agent_ids') |-> 0]
    /\ pc' = "for"
    /\ UNCHANGED << input, idx, attempts, stream, result, tx, payload,
                    opened, sends, recvs, closed, hvars, lvars >>

\* The for loop with `attempts` declared outside it: the counter is not
\* reset for the next identifier.
ForNext_keepAttempts ==
    /\ pc = "for"
    /\ IF idx < Len(agent_ids)
       THEN idx' = idx + 1 /\ pc' = "while"
       ELSE pc' = "done" /\ UNCHANGED idx
    /\ UNCHANGED << input, agent_ids, attempts, stream, result, tx, payload,
                    opened, sends, recvs, closed, status, tries, pauses,
                    connfails, hvars, lvars >>

\* main: the for loop takes the next identifier, with attempts = 0, or ends.
ForNext ==
    /\ pc = "for"
    /\ IF idx < Len(agent_ids)
       THEN idx' = idx + 1 /\ attempts' = 0 /\ pc' = "while"
       ELSE pc' = "done" /\ UNCHANGED << idx, attempts >>
    /\ UNCHANGED << input, agent_ids, stream, result, tx, payload, opened,
                    sends, recvs,
                    closed, status, tries, pauses, connfails, hvars, lvars >>

\* main: the while test; when it passes, process_agent is called.
WhileCheck ==
    /\ pc = "while"
    /\ IF attempts < MAX_ATTEMPTS
       THEN /\ pc' = "connect"
            /\ tries' = [tries EXCEPT ![idx] = @ + 1]
            /\ status' = [status EXCEPT ![idx] = "Attempting"]
            /\ tx' = <<>>
            /\ payload' = NoPayload
            /\ opened' = 0
            /\ sends' = 0
            /\ recvs' = 0
            /\ closed' = 0
       ELSE /\ pc' = "for"
            /\ UNCHANGED << tries, status, tx, payload, opened, sends, recvs,
                            closed >>
    /\ UNCHANGED << input, agent_ids, idx, attempts, stream, result, pauses,
                    connfails, hvars, lvars >>

\* SocketInstance::new with the result of connect dropped: the instance is
\* handed out whether or not it holds a stream.
Connect_ignoreFailure ==
    /\ pc = "connect"
    /\ \E ok \in BOOLEAN :
          IF ok
          THEN /\ stream' = "Some"
               /\ opened' = opened + 1
               /\ pc' = "send"
               /\ UNCHANGED << result, closed, connfails >>
          ELSE /\ stream' = "None"
               /\ connfails' = [connfails EXCEPT ![idx] = @ + 1]
               /\ pc' = "send"
               /\ UNCHANGED << result, closed, opened >>
    /\ UNCHANGED << input, agent_ids, idx, attempts, tx, payload, sends,
                    recvs, status, tries, pauses, hvars, lvars >>

\* process_agent: SocketInstance::new.  A failed connect returns the error;
\* the instance dropped on that path holds no stream.
Connect ==
    /\ pc = "connect"
    /\ \E ok \in BOOLEAN :
          IF ok
          THEN /\ stream' = "Some"
               /\ opened' = opened + 1
               /\ pc' = "send"
               /\ UNCHANGED << result, closed, connfails >>
          ELSE /\ stream' = DropSocket("None").stream
               /\ closed' = closed + (IF DropSocket("None").shutdown THEN 1 ELSE 0)
               /\ result' = Failure("Connection")
               /\ connfails' = [connfails EXCEPT ![idx] = @ + 1]
               /\ pc' = "match"
               /\ UNCHANGED opened
    /\ UNCHANGED << input, agent_ids, idx, attempts, tx, payload, sends,
                    recvs, status, tries, pauses, hvars, lvars >>

\* process_agent with the result of send ignored: the response is awaited
\* whether or not the request went out.
SendRequest_ignoreError ==
    /\ pc = "send"
    /\ LET msg == Request(agent_ids[idx])
       IN  \E cap \in WriteCaps(msg) :
              LET r == Send(stream, msg, cap)
              IN  /\ tx' = tx \o r.written
                  /\ sends' = sends + 1
                  /\ pc' = "receive"
                  /\ stream' = r.stream
                  /\ UNCHANGED << closed, result >>
    /\ UNCHANGED << input, agent_ids, idx, attempts, payload, opened, recvs,
                    status, tries, pauses, connfails, hvars, lvars >>

\* process_agent: the request is built and sent.  A failed send returns the
\* error, and the socket is dropped.
SendRequest ==
    /\ pc = "send"
    /\ LET msg == Request(agent_ids[idx])
       IN  \E cap \in WriteCaps(msg) :
              LET r == Send(stream, msg, cap)
                  d == DropSocket(r.stream)
              IN  /\ tx' = tx \o r.written
                  /\ sends' = sends + 1
                  /\ IF r.ok
                     THEN /\ pc' = "receive"
                          /\ stream' = r.stream
                          /\ UNCHANGED << closed, result >>
                     ELSE /\ stream' = d.stream
                          /\ closed' = closed + (IF d.shutdown THEN 1 ELSE 0)
                          /\ result' = Failure(r.err)
                          /\ pc' = "match"
    /\ UNCHANGED << input, agent_ids, idx, attempts, payload, opened, recvs,
                    status, tries, pauses, connfails, hvars, lvars >>

\* process_agent: the response is received, decoded, split and classified;
\* the socket is dropped on return, whatever is returned.
ReceiveResponse ==
    /\ pc = "receive"
    /\ \E avail \in DaemonStreams :
          LET r == Receive(stream, avail)
              d == DropSocket(r.stream)
          IN  /\ payload' = [got |-> r.ok, bytes |-> r.data]
              /\ recvs' = recvs + 1
              /\ result' = IF r.ok THEN Decode(r.data) ELSE Failure(r.err)
              /\ stream' = d.stream
              /\ closed' = closed + (IF d.shutdown THEN 1 ELSE 0)
              /\ pc' = "match"
    /\ UNCHANGED << input, agent_ids, idx, attempts, tx, opened, sends,
                    status, tries, pauses, connfails, hvars, lvars >>

\* The match with its Ok arm lost: a success is handled as a failure.
MatchArm_noBreak(res, n) ==
    IF n >= MAX_ATTEMPTS THEN "report" ELSE "sleep"

\* The match with a decode failure made terminal: reported at once.
MatchArm_decodeTerminal(res, n) ==
    IF res.kind = "Ok" THEN "break"
    ELSE IF res.err = "Decode" \/ n >= MAX_ATTEMPTS THEN "report"
    ELSE "sleep"

\* The Err arm sleeping before it looks at the budget: a pause follows the
\* last attempt too.
MatchArm_sleepAlways(res, n) ==
    IF res.kind = "Ok" THEN "break" ELSE "sleep"

\* main: the arm of the match taken for result `res` once `n` failed
\* attempts are counted (n includes this one when res is an Err).
MatchArm(res, n) ==
    IF res.kind = "Ok" THEN "break"
    ELSE IF n >= MAX_ATTEMPTS THEN "report"
    ELSE "sleep"

\* The Err arm without its count.
CountFailure_forgotten(n) == n

\* main: attempts += 1
CountFailure(n) == n + 1

\* The match with I/O failures retried outside the budget: only the other
\* failures are counted.
Match_ioNotCounted ==
    /\ pc = "match"
    /\ attempts' = IF result.kind = "Ok" \/ result.err = "Io" THEN attempts
                   ELSE CountFailure(attempts)
    /\ LET arm == MatchArm(result, attempts')
       IN  CASE arm = "break" ->
                  /\ status' = [status EXCEPT ![idx] = "Succeeded"]
                  /\ pc' = "for"
             [] arm = "report" ->
                  /\ status' = [status EXCEPT ![idx] = "Failed"]
                  /\ pc' = "while"
             [] OTHER ->
                  /\ pc' = "sleep"
                  /\ UNCHANGED status
    /\ result' = NoResult
    /\ UNCHANGED << input, agent_ids, idx, stream, tx, payload, opened,
                    sends, recvs, closed, tries, pauses, connfails, hvars, lvars >>

\* main: the match on process_agent's result.  Ok: report and break.
\* Err: count the attempt; report the failure when the budget is used up,
\* otherwise go to sleep.
Match ==
    /\ pc = "match"
    /\ attempts' = IF result.kind = "Ok" THEN attempts ELSE CountFailure(attempts)
    /\ LET arm == MatchArm(result, attempts')
       IN  CASE arm = "break" ->
                  /\ status' = [status EXCEPT ![idx] = "Succeeded"]
                  /\ pc' = "for"
             [] arm = "report" ->
                  /\ status' = [status EXCEPT ![idx] = "Failed"]
                  /\ pc' = "while"
             [] OTHER ->
                  /\ pc' = "sleep"
                  /\ UNCHANGED status
    /\ result' = NoResult
    /\ UNCHANGED << input, agent_ids, idx, stream, tx, payload, opened,
                    sends, recvs, closed, tries, pauses, connfails, hvars, lvars >>

\* main: thread::sleep(RECONNECT_DELAY), then back to the while test.
Sleep ==
    /\ pc = "sleep"
    /\ pauses' = [pauses EXCEPT ![idx] = @ + 1]
    /\ pc' = "while"
    /\ UNCHANGED << input, agent_ids, idx, attempts, stream, result, tx,
                    payload, opened, sends, recvs, closed, status, tries,
                    connfails, hvars, lvars >>

Next ==
    \/ ReadInput
    \/ ForNext
    \/ WhileCheck
    \/ Connect
    \/ SendRequest
    \/ ReceiveResponse
    \/ Match
    \/ Sleep

Spec == Init /\ [][Next]_vars

\* Every blocking connect, send, receive and sleep returns, and the program
\* keeps running until main returns.
FairSpec == Spec /\ WF_vars(Next)

\* ------------------------------------------------- the channel alone

\* A payload whose length needs two bytes of the header: 258 bytes.
BigPayload == [i \in 1..258 |-> i % 256]

ChanPayloads ==
    UNION { [1..n -> {0, 7}] : n \in 0..MaxPayloadLen } \cup { BigPayload }

\* Where a write fault may fall in the frame of p: before it, inside the
\* header, after the header, before the last byte, or nowhere.
ChanCaps(p) ==
    { c \in { 0, HEADER_LEN - 1, HEADER_LEN, HEADER_LEN + Len(p) - 1,
              HEADER_LEN + Len(p) } : c <= HEADER_LEN + Len(p) }

\* The driver has not started and does not run in SpecChan.
DriverIdle ==
    /\ input = <<>>
    /\ agent_ids = <<>>
    /\ idx = 0
    /\ attempts = 0
    /\ pc = "chan"
    /\ stream = "None"
    /\ result = NoResult
    /\ tx = <<>>
    /\ payload = NoPayload
    /\ opened = 0
    /\ sends = 0
    /\ recvs = 0
    /\ closed = 0
    /\ status = <<>>
    /\ tries = <<>>
    /\ pauses = <<>>
    /\ connfails = <<>>

ChanInit == DriverIdle /\ ChanIdle /\ LenIdle

\* a.connect(): on success a and b hold the two ends of one stream.
ChanConnect ==
    /\ ~h_joined
    /\ a_stream = "None"
    /\ b_stream = "None"
    /\ \E ok \in BOOLEAN :
          IF ok
          THEN a_stream' = "Some" /\ b_stream' = "Some" /\ h_joined' = TRUE
          ELSE UNCHANGED << a_stream, b_stream, h_joined >>
    /\ h_op' = "connect"
    /\ UNCHANGED << wire, wire_eof, h_send, h_head, h_recv, h_sends, dvars, lvars >>

\* a.send(p).  Once b's end is shut down, no byte is accepted any more.
ChanSend ==
    /\ h_sends < MaxSends
    /\ \E p \in ChanPayloads :
          \E cap \in (IF h_joined /\ b_stream = "None" THEN {0} ELSE ChanCaps(p)) :
             LET r == Send(a_stream, p, cap)
             IN  /\ a_stream' = r.stream
                 /\ wire' = wire \o r.written
                 /\ h_send' = [ok |-> r.ok, err |-> r.err, msg |-> p,
                               written |-> r.written]
                 /\ h_head' = IF wire = <<>> THEN h_send' ELSE h_head
    /\ h_sends' = h_sends + 1
    /\ h_op' = "send"
    /\ UNCHANGED << b_stream, wire_eof, h_recv, h_joined, dvars, lvars >>

\* b.receive().  The blocking reads return when the frame is there or when
\* the stream has ended; a channel without a stream answers at once.
ChanReceive ==
    /\ b_stream = "None" \/ wire_eof \/ FrameComplete(wire)
    /\ LET r == Receive(b_stream, wire)
       IN  /\ b_stream' = r.stream
           /\ wire' = r.rest
           /\ h_recv' = [ok |-> r.ok, err |-> r.err, data |-> r.data,
                         used |-> Len(wire) - Len(r.rest)]
    /\ h_op' = "receive"
    /\ UNCHANGED << a_stream, wire_eof, h_send, h_head, h_sends, h_joined,
                    dvars, lvars >>

\* a goes out of scope.
ChanDropA ==
    /\ h_op # "dropA"
    /\ a_stream' = DropSocket(a_stream).stream
    /\ wire_eof' = (wire_eof \/ DropSocket(a_stream).shutdown)
    /\ h_op' = "dropA"
    /\ UNCHANGED << b_stream, wire, h_send, h_head, h_recv, h_sends, h_joined,
                    dvars, lvars >>

\* b goes out of scope; what it had not read is discarded.
ChanDropB ==
    /\ h_op # "dropB"
    /\ b_stream' = DropSocket(b_stream).stream
    /\ wire' = IF DropSocket(b_stream).shutdown THEN <<>> ELSE wire
    /\ h_op' = "dropB"
    /\ UNCHANGED << a_stream, wire_eof, h_send, h_head, h_recv, h_sends,
                    h_joined, dvars, lvars >>

ChanNext ==
    \/ ChanConnect
    \/ ChanSend
    \/ ChanReceive
    \/ ChanDropA
    \/ ChanDropB

SpecChan == ChanInit /\ [][ChanNext]_vars

\* --------------------------------------- send, by the length of msg

\* Lengths a payload may have, in limbs: from 0 to beyond what 32 bits hold.
LongLens == [lo : {0, 1, 65535}, hi : {0, 1, 65535}, top : {0, 1, 2}]

LenInit ==
    /\ DriverIdle
    /\ ChanIdle
    /\ l_pc = "call"
    /\ l_len \in LongLens
    /\ l_fault \in {"none", "header", "payload"}
    /\ l_head = <<>>
    /\ l_count = ZeroLen
    /\ l_res = ""

\* send: the header is made from msg.len() and written.
LenWriteHeader ==
    /\ l_pc = "call"
    /\ IF l_fault = "header"
       THEN l_pc' = "returned" /\ l_res' = "Io" /\ UNCHANGED l_head
       ELSE l_pc' = "header" /\ l_head' = LeBytes(AsU32(l_len))
               /\ UNCHANGED l_res
    /\ UNCHANGED << l_len, l_fault, l_count, dvars, hvars >>

\* send: the payload is written, and send returns.
LenWritePayload ==
    /\ l_pc = "header"
    /\ IF l_fault = "payload"
       THEN l_res' = "Io" /\ UNCHANGED l_count
       ELSE l_res' = "Ok" /\ l_count' = l_len
    /\ l_pc' = "returned"
    /\ UNCHANGED << l_len, l_fault, l_head, dvars, hvars >>

LenNext ==
    \/ LenWriteHeader
    \/ LenWritePayload

SpecLen == LenInit /\ [][LenNext]_vars

\* ------------------------------------------------------------ claims

Ids == 1..Len(agent_ids)

Terminal(i) == status[i] \in {"Succeeded", "Failed"}

\* The for loop is past identifier i.
Finished(i) == idx > i \/ pc = "done" \/ (idx = i /\ pc = "for")

\* Every attempt made for i so far ended at a failed connect.
AllConnectsFailed(i) == tries[i] > 0 /\ connfails[i] = tries[i]

\* C1 (retry exhaustion).  No identifier ever gets a 4th attempt or a 3rd
\* pause.  While every attempt of an identifier has failed at connect: it
\* has not succeeded; one pause lies between attempt k and attempt k + 1 (the
\* pauses taken are the attempts made less one, or equal to them once the
\* pause after a failed attempt is over and the next attempt has not begun);
\* no pause is taken after the 3rd attempt; and once the loop has left the
\* identifier it has had exactly 3 attempts and 2 pauses and is reported Failed.
C1_RetryExhaustion ==
    \A i \in Ids :
        /\ tries[i] <= 3
        /\ pauses[i] <= 2
        /\ AllConnectsFailed(i) =>
              /\ status[i] # "Succeeded"
              /\ pauses[i] = IF idx = i /\ pc = "while" /\ status[i] # "Failed"
                             THEN tries[i]
                             ELSE tries[i] - 1
              /\ (idx = i /\ pc = "sleep") => tries[i] < 3
              /\ status[i] = "Failed" => tries[i] = 3
              /\ Finished(i) =>
                    status[i] = "Failed" /\ tries[i] = 3 /\ pauses[i] = 2

\* C1 witness: the run is over and an identifier whose connects all failed
\* stands Failed after 3 attempts and 2 pauses.
C1_Witness ==
    /\ pc = "done"
    /\ \E i \in Ids :
          /\ AllConnectsFailed(i)
          /\ status[i] = "Failed"
          /\ tries[i] = 3
          /\ pauses[i] = 2

\* C2 (short-circuit on success).  When process_agent has returned Ok, the
\* next step reports the identifier Succeeded and leaves the while loop
\* without counting an attempt; and for an identifier that is Succeeded no
\* later step makes an attempt or takes a pause, and it stays Succeeded.
C2_ShortCircuit ==
    [][ /\ (pc = "match" /\ result.kind = "Ok") =>
              /\ status'[idx] = "Succeeded"
              /\ pc' = "for"
              /\ attempts' = attempts
        /\ \A i \in Ids :
              status[i] = "Succeeded" =>
                 /\ tries'[i] = tries[i]
                 /\ pauses'[i] = pauses[i]
                 /\ status'[i] = "Succeeded"
                 /\ ~(idx' = i /\ pc' \in {"connect", "send", "receive", "sleep"})
      ]_vars

\* C2 witness: the run is over, and an identifier that succeeded at its 2nd
\* attempt has had 2 attempts and 1 pause.
C2_Witness ==
    /\ pc = "done"
    /\ \E i \in Ids :
          status[i] = "Succeeded" /\ tries[i] = 2 /\ pauses[i] = 1

\* Payloads of the model that are not UTF-8.
NotUtf8Replies ==
    { <<255>>, <<101, 114, 114, SPACE, 195>>,
      <<101, 114, 114, SPACE>> \o CANNOT_SEND \o <<255>> }

\* The current attempt received a whole frame whose payload is not UTF-8.
DecodeFailed == payload.got /\ payload.bytes \in NotUtf8Replies

Decoded == payload.got /\ payload.bytes \notin NotUtf8Replies

\* The text is "err", one space, and a body in which "Cannot send request"
\* occurs somewhere.
SentinelShaped(b) ==
    /\ Len(b) >= 4
    /\ SubSeq(b, 1, 4) = <<101, 114, 114, 32>>
    /\ \E k \in 5..Len(b) :
          /\ k + Len(CANNOT_SEND) - 1 <= Len(b)
          /\ SubSeq(b, k, k + Len(CANNOT_SEND) - 1) = CANNOT_SEND

\* C4 (sentinel detection).  The status token is the text before the first
\* space and the body the text after it.  When the attempt connected, sent
\* its request and received a UTF-8 response whose status token is "err" and
\* whose body contains "Cannot send request", process_agent has returned the
\* AgentUnreachable failure; matching it counts one attempt and, when fewer
\* than 3 are then counted, leads to the pause; that pause is taken and is
\* followed by a new attempt for the same identifier.
C4_SentinelRetried ==
    [][ (Decoded /\ SentinelShaped(payload.bytes)) =>
           /\ pc = "match" =>
                 /\ result = Failure("AgentUnreachable")
                 /\ opened = 1
                 /\ tx = ToLeBytes(Len(Request(agent_ids[idx]))) \o Request(agent_ids[idx])
                 /\ attempts' = attempts + 1
                 /\ attempts + 1 < 3 => pc' = "sleep"
                 /\ attempts + 1 >= 3 => status'[idx] = "Failed"
           /\ pc = "sleep" =>
                 /\ pc' = "while"
                 /\ pauses'[idx] = pauses[idx] + 1
           /\ (pc = "while" /\ status[idx] # "Failed") =>
                 /\ pc' = "connect"
                 /\ idx' = idx
                 /\ tries'[idx] = tries[idx] + 1
      ]_vars

\* C4 witness: the pause after a sentinel response to the 1st attempt.
C4_Witness ==
    /\ pc = "sleep"
    /\ Decoded
    /\ SentinelShaped(payload.bytes)
    /\ tries[idx] = 1

\* b is tok alone, without a space, or tok, the first space of b, and body.
IsSplit(b, tok, body) ==
    \/ /\ \A j \in 1..Len(b) : b[j] # 32
       /\ tok = b
       /\ body = <<>>
    \/ /\ b = tok \o <<32>> \o body
       /\ \A j \in 1..Len(tok) : tok[j] # 32

\* C5 (ordinary responses).  When the attempt received a UTF-8 response
\* that is not the sentinel, process_agent has returned Ok with the summary
\* made of that response's status token and body, and matching it reports the
\* identifier Succeeded on this attempt, without counting a failure.
C5_OrdinaryResponse ==
    [][ (pc = "match" /\ Decoded /\ ~SentinelShaped(payload.bytes)) =>
           /\ result.kind = "Ok"
           /\ \E p \in 0..Len(payload.bytes) :
                 LET tok == SubSeq(payload.bytes, 1, IF p = 0 THEN Len(payload.bytes) ELSE p - 1)
                     body == IF p = 0 THEN <<>>
                             ELSE SubSeq(payload.bytes, p + 1, Len(payload.bytes))
                 IN  /\ IsSplit(payload.bytes, tok, body)
                     /\ result.text = <<114, 101, 99, 95, 109, 115, 103, 95, 111, 107, 58, 32>>
                                      \o tok
                                      \o <<32, 124, 32, 114, 101, 99, 95, 109, 115, 103, 95, 98, 111, 100, 121, 58, 32>>
                                      \o body
           /\ status'[idx] = "Succeeded"
           /\ pc' = "for"
           /\ attempts' = attempts
           /\ tries' = tries
      ]_vars

\* C5 witness: an identifier stands Succeeded on its 1st attempt after the
\* response "err no".
C5_Witness ==
    /\ pc = "for"
    /\ idx > 0
    /\ status[idx] = "Succeeded"
    /\ tries[idx] = 1
    /\ payload = [got |-> TRUE, bytes |-> <<101, 114, 114, 32, 110, 111>>]

\* What holds of the order of the attempts in every state.
InOrder ==
    /\ \A i \in Ids : tries[i] > 0 => i <= idx
    /\ \A i \in Ids : i < idx => (Terminal(i) /\ tries[i] >= 1)
    /\ \A i, j \in Ids : (i < j /\ tries[j] > 0) => Terminal(i)
    /\ pc = "done" => \A i \in Ids : Terminal(i) /\ tries[i] >= 1
    /\ pc \in {"connect", "send", "receive", "match"} => attempts = tries[idx] - 1
    /\ \A i \in Ids : status[i] = "Failed" => tries[i] = 3

\* What holds of every step: an attempt is made only for the identifier the
\* for loop is at, when all earlier ones are over and no later one has
\* begun; the loop moves one identifier on, only from one that is over, and
\* starts the next with no failure counted.
StepInOrder ==
    /\ \A i \in Ids :
          tries'[i] # tries[i] =>
             /\ i = idx
             /\ tries'[i] = tries[i] + 1
             /\ \A k \in Ids : k < i => Terminal(k)
             /\ \A k \in Ids : k > i => tries[k] = 0
    /\ idx' # idx =>
          /\ idx' = idx + 1
          /\ idx > 0 => Terminal(idx)
          /\ attempts' = 0
          /\ tries[idx'] = 0

\* C6 (failure isolation and ordering).  Identifiers are attempted strictly
\* in input order, one after the other: all attempts of identifier i are
\* over before the first attempt of i + 1.  When the run is over every
\* identifier has had at least one attempt.  Each identifier starts with no
\* failure counted, the counter counts only its own failed attempts, and it
\* is reported Failed only after 3 attempts of its own.
C6_IsolationAndOrder == []InOrder /\ [][StepInOrder]_vars

\* C6 witness: the run is over; the 1st identifier Failed, and the 2nd then
\* had all 3 attempts and Succeeded on the last.
C6_Witness ==
    /\ pc = "done"
    /\ Len(agent_ids) = 2
    /\ status[1] = "Failed"
    /\ status[2] = "Succeeded"
    /\ tries[2] = 3

RECURSIVE SumTo(_, _)
SumTo(f, n) == IF n = 0 THEN 0 ELSE f[n] + SumTo(f, n - 1)

\* A step of one identifier's state machine.
StatusStep(a, b) ==
    \/ b = a
    \/ a = "Pending" /\ b = "Attempting"
    \/ a = "Attempting" /\ b \in {"Succeeded", "Failed"}

\* C7 (batch termination).  When every blocking call returns and the
\* program keeps running, the run reaches its end; at its end every
\* identifier is Succeeded or Failed; every identifier moves only Pending ->
\* Attempting -> Succeeded or Failed (staying Attempting across retries) and
\* never leaves Succeeded or Failed; and the attempts made in total never
\* exceed 3 times the number of identifiers.
C7_BatchTermination ==
    /\ <>(pc = "done")
    /\ [](pc = "done" => \A i \in Ids : Terminal(i))
    /\ [][\A i \in Ids : StatusStep(status[i], status'[i])]_vars
    /\ [](SumTo(tries, Len(agent_ids)) <= 3 * Len(agent_ids))

\* C7 witness: the run of two identifiers is over, one Succeeded and one
\* Failed, after 4 attempts in total.
C7_Witness ==
    /\ pc = "done"
    /\ Len(agent_ids) = 2
    /\ status[1] = "Succeeded"
    /\ status[2] = "Failed"
    /\ SumTo(tries, 2) = 4

\* The stream s begins with the bytes w.
StartsWith(s, w) == Len(s) >= Len(w) /\ SubSeq(s, 1, Len(w)) = w

\* The bytes a successful send(p) wrote lie at the head of the wire, and b
\* holds its end of the stream.
FrameAtHead == h_head.ok /\ StartsWith(wire, h_head.written) /\ b_stream = "Some"

\* C8 (frame round-trip).  A successful send(p) has written 4 + len(p)
\* bytes: len(p) in 4 bytes, lowest first, then p.  When those bytes lie at
\* the head of the stream, receive on the other end does not wait, returns
\* exactly p, and takes exactly 4 + len(p) bytes from the stream, leaving
\* what follows them.
C8_RoundTrip ==
    /\ [](FrameAtHead => ENABLED ChanReceive)
    /\ [][ /\ (h_op' = "send" /\ h_send'.ok) =>
                 LET w == h_send'.written
                     p == h_send'.msg
                 IN  /\ Len(w) = 4 + Len(p)
                     /\ w[1] + 256 * w[2] = Len(p)
                     /\ w[3] = 0 /\ w[4] = 0
                     /\ SubSeq(w, 5, Len(w)) = p
           /\ (FrameAtHead /\ h_op' = "receive") =>
                 /\ h_recv'.ok
                 /\ h_recv'.data = h_head.msg
                 /\ h_recv'.used = 4 + Len(h_head.msg)
                 /\ wire' = SubSeq(wire, 4 + Len(h_head.msg) + 1, Len(wire))
         ]_vars

\* C8 witness: receive has returned the 258-byte payload that was sent,
\* and the frame of a second send is still on the wire.
C8_Witness ==
    /\ h_op = "receive"
    /\ h_recv.ok
    /\ h_head.ok
    /\ Len(h_head.msg) = 258
    /\ h_recv.data = h_head.msg
    /\ wire # <<>>

\* C8 second case: the empty payload has made the round trip.
C8_WitnessEmpty ==
    /\ h_op = "receive"
    /\ h_recv.ok
    /\ h_head.ok
    /\ h_head.msg = <<>>
    /\ h_recv.data = <<>>
    /\ h_recv.used = 4

\* The wire holds only the bytes of a send that faulted before the end of
\* its frame, the sender's end is shut down, and b holds its end.
TornFrame ==
    /\ h_send.err = "Io"
    /\ wire = h_send.written
    /\ wire_eof
    /\ b_stream = "Some"

\* C9 (short-read detection).  When the stream ends after only a proper
\* prefix of a frame (cut inside the header or inside the payload), receive
\* fails with the I/O error and returns no payload.
C9_ShortRead ==
    [][ (TornFrame /\ h_op' = "receive") =>
           /\ ~h_recv'.ok
           /\ h_recv'.err = "Io"
           /\ h_recv'.data = <<>>
      ]_vars

\* C9 witness: receive has failed on a frame cut inside its payload.
C9_Witness ==
    /\ h_op = "receive"
    /\ h_recv.err = "Io"
    /\ h_sends = 1
    /\ h_send.err = "Io"
    /\ Len(h_send.written) > 4
    /\ wire_eof
    /\ b_stream = "Some"

\* C10 (not-connected guard).  send on a channel that holds no stream
\* fails with the not-connected error, writes nothing, and leaves the
\* channel without a stream; receive likewise fails with the not-connected
\* error, reads nothing, and leaves the channel without a stream.
C10_NotConnected ==
    [][ /\ (a_stream = "None" /\ h_op' = "send") =>
              /\ ~h_send'.ok
              /\ h_send'.err = "NotConnected"
              /\ h_send'.written = <<>>
              /\ wire' = wire
              /\ a_stream' = "None"
              /\ b_stream' = b_stream
              /\ wire_eof' = wire_eof
        /\ (b_stream = "None" /\ h_op' = "receive") =>
              /\ ~h_recv'.ok
              /\ h_recv'.err = "NotConnected"
              /\ h_recv'.data = <<>>
              /\ h_recv'.used = 0
              /\ wire' = wire
              /\ b_stream' = "None"
              /\ a_stream' = a_stream
      ]_vars

\* C10 witness: a send on a channel that was connected and then closed has
\* failed with the not-connected error while the peer still holds its end.
C10_Witness ==
    /\ h_joined
    /\ a_stream = "None"
    /\ b_stream = "Some"
    /\ h_op = "send"
    /\ h_send.err = "NotConnected"

\* C10 second case: a receive on a channel that was never connected.
C10_WitnessNever ==
    /\ ~h_joined
    /\ b_stream = "None"
    /\ h_op = "receive"
    /\ h_recv.err = "NotConnected"

\* C11 (guaranteed release).  While process_agent holds a channel it is
\* connected and not shut down.  When process_agent has returned, whatever
\* it returns (Ok, a send failure, a receive failure, a decode failure, the
\* AgentUnreachable failure), the connection it made has been shut down
\* exactly once and the channel holds no stream, before main matches on the
\* result and ever after in that attempt.  A channel whose connect failed
\* is dropped without any shutdown.
C11_Release ==
    /\ opened \in {0, 1}
    /\ closed <= opened
    /\ pc \in {"send", "receive"} => (opened = 1 /\ closed = 0 /\ stream = "Some")
    /\ pc \in {"match", "sleep", "while", "for", "done"} =>
          (closed = opened /\ stream = "None")
    /\ (pc = "match" /\ result.kind = "Ok") => (opened = 1 /\ closed = 1)
    /\ (pc = "match" /\ result.kind = "Err"
          /\ result.err \in {"Io", "Decode", "AgentUnreachable"}) =>
          (opened = 1 /\ closed = 1)
    /\ (pc = "match" /\ result.kind = "Err" /\ result.err = "Connection") =>
          (opened = 0 /\ closed = 0)

\* C11 witness: process_agent has returned a decode failure, and the
\* connection it made has been shut down once.
C11_Witness ==
    /\ pc = "match"
    /\ result = Failure("Decode")
    /\ opened = 1
    /\ closed = 1
    /\ stream = "None"

\* The request of the current attempt as one frame on the wire.
RequestFrame == ToLeBytes(Len(Request(agent_ids[idx]))) \o Request(agent_ids[idx])

\* C12 (channel lifecycle).  An attempt begins with no channel and connects
\* its own: when an attempt begins, the channel of the attempt before is
\* closed and the new attempt holds no stream.  On the channel of an attempt
\* there is at most one send and at most one receive, each on the open
\* stream, and a receive happens only after the send on that channel wrote
\* the whole request frame.
C12_Lifecycle ==
    /\ [](/\ opened <= 1
          /\ sends <= opened
          /\ recvs <= sends
          /\ pc = "connect" =>
                (stream = "None" /\ opened = 0 /\ closed = 0
                   /\ sends = 0 /\ recvs = 0)
          /\ (pc = "match" /\ recvs = 1) => tx = RequestFrame)
    /\ [][/\ tries' # tries =>
                (stream = "None" /\ closed = opened /\ stream' = "None"
                   /\ opened' = 0 /\ sends' = 0 /\ recvs' = 0)
          /\ opened' > opened => (stream = "None" /\ stream' = "Some")
          /\ sends' > sends =>
                (stream = "Some" /\ closed = 0 /\ sends = 0 /\ sends' = 1)
          /\ recvs' > recvs =>
                (stream = "Some" /\ closed = 0 /\ recvs = 0 /\ recvs' = 1
                   /\ sends = 1 /\ tx = RequestFrame)]_vars

\* C12 witness: the second attempt for an identifier has sent and received
\* once on its own channel, the first attempt having used another.
C12_Witness ==
    /\ pc = "match"
    /\ tries[idx] = 2
    /\ connfails[idx] = 0
    /\ opened = 1
    /\ sends = 1
    /\ recvs = 1

\* A line that is empty or made of white space only.
Blank(line) == \A i \in 1..Len(line) : line[i] \in {9, 10, 11, 12, 13, 32}

AllBlank == \A i \in 1..Len(input) : Blank(input[i])

\* C13 (blank input).  When every input line is blank, no identifier is
\* collected, the for loop never enters its body, and nothing is connected,
\* sent or received.  Whatever the input, no blank line is among the
\* identifiers, and the identifiers are as many as the lines that are not
\* blank.
C13_BlankInput ==
    /\ AllBlank =>
          /\ agent_ids = <<>>
          /\ idx = 0
          /\ pc \in {"read", "for", "done"}
          /\ stream = "None"
          /\ opened = 0
          /\ sends = 0
          /\ recvs = 0
          /\ tx = <<>>
    /\ \A k \in 1..Len(agent_ids) : ~Blank(agent_ids[k])
    /\ pc # "read" =>
          Len(agent_ids) = Cardinality({ i \in 1..Len(input) : ~Blank(input[i]) })

\* C13 witness: the program has ended on an input of two blank lines, one of
\* them white space, without an identifier.
C13_Witness ==
    /\ pc = "done"
    /\ Len(input) = 2
    /\ AllBlank
    /\ input[2] = <<9, 32>>
    /\ agent_ids = <<>>
    /\ idx = 0

\* The summary line printed for status token tok and body.
Printed(tok, body) ==
    <<114, 101, 99, 95, 109, 115, 103, 95, 111, 107, 58, 32>> \o tok
       \o <<32, 124, 32, 114, 101, 99, 95, 109, 115, 103, 95, 98, 111, 100, 121, 58, 32>>
       \o body

\* b cut at position p: the token before it and the body after it; p = 0
\* leaves b whole as the token.
CutAt(b, p) ==
    IF p = 0 THEN [tok |-> b, body |-> <<>>]
    ELSE [tok |-> SubSeq(b, 1, p - 1), body |-> SubSeq(b, p + 1, Len(b))]

\* Positions of b holding one of the bytes in `seps`.
SepsIn(b, seps) == { i \in 1..Len(b) : b[i] \in seps }

\* The first position of b holding one of `seps`, or 0.
FirstOf(b, seps) ==
    IF SepsIn(b, seps) = {} THEN 0
    ELSE CHOOSE i \in SepsIn(b, seps) : \A j \in SepsIn(b, seps) : i <= j

\* C14 as stated (response splitting at white space).  A decoded response
\* that process_agent reports is reported with the status token and body
\* found by cutting the text at its first white space character: tab, line
\* feed, vertical tab, form feed, carriage return or space.
C14_SplitAtWhitespace ==
    (pc = "match" /\ Decoded /\ result.kind = "Ok") =>
        LET cut == CutAt(payload.bytes,
                         FirstOf(payload.bytes, {9, 10, 11, 12, 13, 32}))
        IN  result.text = Printed(cut.tok, cut.body)

\* C14 amended (response splitting at the space).  A decoded response that
\* process_agent reports is reported with the status token and body found by
\* cutting the text at its first space (U+0020); a text without a space is
\* the status token whole, with an empty body.  A decoded response that
\* process_agent refuses has "err" as the status token cut that way.
C14_SplitAtSpace ==
    (pc = "match" /\ Decoded) =>
        LET cut == CutAt(payload.bytes, FirstOf(payload.bytes, {32}))
        IN  /\ result.kind = "Ok" =>
                  /\ result.text = Printed(cut.tok, cut.body)
                  /\ SepsIn(payload.bytes, {32}) = {} =>
                        result.text = Printed(payload.bytes, <<>>)
            /\ result.kind = "Err" => cut.tok = <<101, 114, 114>>

\* C14 witness: the response "err<TAB>Cannot send request" is reported, cut
\* at the space after "Cannot", the tab left inside the status token.
C14_Witness ==
    /\ pc = "match"
    /\ payload.got
    /\ payload.bytes = <<101, 114, 114, 9>> \o CANNOT_SEND
    /\ result.kind = "Ok"
    /\ result.text = Printed(<<101, 114, 114, 9, 67, 97, 110, 110, 111, 116>>,
                             <<115, 101, 110, 100, 32, 114, 101, 113, 117, 101, 115, 116>>)

C16_SingleBudget ==
    /\ [](/\ attempts <= 3
          /\ \A i \in Ids : tries[i] <= 3
          /\ pc \in {"connect", "send", "receive", "match"} =>
                attempts = tries[idx] - 1)
    /\ [][/\ (/\ pc = "match"
              /\ result.kind = "Err"
              /\ result.err \in {"Connection", "Io", "AgentUnreachable"}) =>
                /\ attempts' = attempts + 1
                /\ attempts' = tries[idx]
                /\ tries' = tries
          /\ (pc # "read" /\ tries' # tries) =>
                /\ attempts < 3
                /\ tries' = [tries EXCEPT ![idx] = @ + 1]]_vars

\* C16 witness: the 3rd attempt for an identifier ended at a short read,
\* one of the two before it having failed at connect and the other
\* otherwise.
C16_Witness ==
    /\ pc = "match"
    /\ result = Failure("Io")
    /\ recvs = 1
    /\ ~payload.got
    /\ attempts = 2
    /\ tries[idx] = 3
    /\ connfails[idx] = 1

\* The frame of payload p: its length in four bytes, lowest first, then p.
\* Every payload of the model is shorter than 65536 bytes.
FrameOf(p) == << Len(p) % 256, Len(p) \div 256, 0, 0 >> \o p

\* C17 (complete write).  Whatever a send puts on the stream is the frame of
\* its payload from the first byte on, in order, without a gap.  A send
\* returns Ok only when the whole frame, header then payload, is on the
\* stream, the writes that took only a part of it having been followed by
\* writes of the rest.  A send on a connected channel whose stream stops
\* taking bytes while some are left fails with an I/O failure.
C17_CompleteWrite ==
    [][h_sends' > h_sends =>
          LET r == h_send'
              frame == FrameOf(r.msg)
          IN  /\ Len(r.written) <= Len(frame)
              /\ r.written = SubSeq(frame, 1, Len(r.written))
              /\ wire' = wire \o r.written
              /\ r.ok => r.written = frame
              /\ (a_stream = "Some" /\ r.written # frame) =>
                    (~r.ok /\ r.err = "Io")]_vars

\* C17 witness: a send of 258 bytes, more than one write takes, returned Ok
\* with its whole frame on the stream, and the send after it failed, the
\* stream having taken three bytes of its header and no more.
C17_Witness ==
    /\ h_op = "send"
    /\ h_sends = 2
    /\ h_head.ok
    /\ Len(h_head.msg) = 258
    /\ Len(h_head.written) = 262
    /\ ~h_send.ok
    /\ h_send.err = "Io"
    /\ Len(h_send.written) = 3

\* C18 (the driver never meets the not-connected error).  process_agent
\* never returns the "Socket not connected" failure.  Where it is about to
\* send or to receive, its channel holds a stream that has not been shut
\* down, and every send and receive it makes is made on such a channel.  A
\* failed connect ends the attempt at once with the connection failure:
\* nothing is sent, nothing is received.
C18_NeverNotConnected ==
    /\ [](/\ result.err # "NotConnected"
          /\ pc \in {"send", "receive"} =>
                (stream = "Some" /\ opened = 1 /\ closed = 0)
          /\ (pc = "match" /\ result = Failure("Connection")) =>
                (sends = 0 /\ recvs = 0 /\ tx = <<>> /\ ~payload.got))
    /\ [][/\ (sends' > sends \/ recvs' > recvs) =>
                (stream = "Some" /\ opened = 1 /\ closed = 0)
          /\ (pc = "connect" /\ stream' = "None") =>
                (pc' = "match" /\ result' = Failure("Connection")
                   /\ sends' = 0 /\ recvs' = 0)]_vars

\* C18 witness: the 2nd attempt for an identifier has ended at a failed
\* connect, the 1st having gone as far as a send; nothing was sent or
\* received in the 2nd.
C18_Witness ==
    /\ pc = "match"
    /\ result = Failure("Connection")
    /\ tries[idx] = 2
    /\ connfails[idx] = 1
    /\ opened = 0
    /\ sends = 0
    /\ recvs = 0

\* C19 (no concurrent channels).  The connections made and not yet shut
\* down are never more than one, and there is one exactly while the channel
\* of the attempt in hand holds its stream.  None is open while main sleeps
\* before a retry, when main tests the while condition, when the for loop
\* moves to the next identifier, before the first identifier and after the
\* last.
C19_OneConnection ==
    /\ [](/\ opened - closed \in {0, 1}
          /\ stream = "Some" <=> opened - closed = 1
          /\ pc \in {"read", "for", "while", "sleep", "done"} =>
                (stream = "None" /\ opened = closed))
    /\ [][/\ (pc = "sleep" \/ idx' # idx) =>
                /\ stream = "None"
                /\ stream' = "None"
                /\ opened = closed
                /\ opened' = closed'
          /\ opened' > opened => (stream = "None" /\ opened = closed)]_vars

\* C19 witness: main sleeps before a retry after an attempt whose connection
\* was made and shut down; nothing is open.
C19_Witness ==
    /\ pc = "sleep"
    /\ opened = 1
    /\ closed = 1
    /\ sends = 1
    /\ stream = "None"

\* C20 (implicit length handling).  send returns a failure only when the
\* stream faults, never for the length of the payload.  The header it
\* writes holds the low 32 bits of the length: its two low bytes make the
\* low half and its two high bytes the high half, whatever lies above being
\* dropped.  When send returns Ok, as many payload bytes are written as the
\* payload has, the part of the count above 32 bits included.  For a length
\* that fits 32 bits the value of the header is the length.
C20_ImplicitLength ==
    /\ l_pc = "returned" => (l_res = "Ok" <=> l_fault = "none")
    /\ (l_pc = "header" \/ l_res = "Ok") =>
          /\ Len(l_head) = 4
          /\ \A k \in 1..4 : l_head[k] \in 0..255
          /\ l_head[1] + 256 * l_head[2] = l_len.lo
          /\ l_head[3] + 256 * l_head[4] = l_len.hi
          /\ l_len.top = 0 =>
                l_len = [lo |-> l_head[1] + 256 * l_head[2],
                         hi |-> l_head[3] + 256 * l_head[4],
                         top |-> 0]
    /\ l_res = "Ok" => l_count = l_len

\* C20 witness: send has returned Ok for a payload of 2^32 + 1 bytes, with
\* the header of the length 1 and all of the payload written.
C20_Witness ==
    /\ l_pc = "returned"
    /\ l_res = "Ok"
    /\ l_len = [lo |-> 1, hi |-> 0, top |-> 1]
    /\ l_head = <<1, 0, 0, 0>>
    /\ l_count = l_len

====
